---- MODULE Spec2Model ----
(***************************************************************************)
(* meshTransform (src/src/main.rs): a line-oriented filter that rewrites   *)
(* the vertex records of a text mesh with one of the transforms            *)
(* translate, scale and warp.                                              *)
(*                                                                         *)
(* Numbers.  An f32 is modelled as a pair <<n, d>>: a reduced fraction     *)
(* when d > 0, and the IEEE special values when d = 0 (<<0,0>> is NaN,     *)
(* <<1,0>> is +inf, <<-1,0>> is -inf).  Arithmetic on finite values is     *)
(* exact; the rounding of f32 and the sign of zero are not modelled.  A    *)
(* square root that is not rational is truncated to 1/SqrtScale.           *)
(*                                                                         *)
(* Text.  A line of text is a sequence of one-character strings, as        *)
(* yielded by BufRead::lines (terminator already stripped).                *)
(*                                                                         *)
(* The rotate subcommand (sin and cos of an arbitrary f32 angle) is left   *)
(* out: nothing below depends on it.                                       *)
(***************************************************************************)
EXTENDS Integers, Sequences, FiniteSets, TLC

\* ------------------------------------------------------------------ bounds
MaxInput == 2          \* longest input stream, in lines
SqrtScale == 16        \* resolution of an irrational square root
MaxFracDigits == 4     \* fractional digits printed for a non-terminating value

\* ------------------------------------------------------------- f32 values
Abs(x) == IF x < 0 THEN -x ELSE x
Sgn(x) == IF x < 0 THEN -1 ELSE IF x > 0 THEN 1 ELSE 0

RECURSIVE Gcd(_, _)
Gcd(a, b) == IF b = 0 THEN a ELSE Gcd(b, a % b)

Q(n, d) == LET g == Gcd(Abs(n), d) IN <<n \div g, d \div g>>

NaN == <<0, 0>>
PosInf == <<1, 0>>
NegInf == <<-1, 0>>
Zero == <<0, 1>>
One == <<1, 1>>
I(n) == <<n, 1>>

IsNaN(a) == a = NaN
IsFinite(a) == a[2] # 0

FNeg(a) == <<-a[1], a[2]>>

FAdd(a, b) ==
    IF IsNaN(a) \/ IsNaN(b) THEN NaN
    ELSE IF ~IsFinite(a) THEN (IF ~IsFinite(b) /\ b # a THEN NaN ELSE a)
    ELSE IF ~IsFinite(b) THEN b
    ELSE Q(a[1] * b[2] + b[1] * a[2], a[2] * b[2])

FSub(a, b) == FAdd(a, FNeg(b))

FMul(a, b) ==
    IF IsNaN(a) \/ IsNaN(b) THEN NaN
    ELSE IF ~IsFinite(a) \/ ~IsFinite(b)
         THEN (IF a[1] = 0 \/ b[1] = 0 THEN NaN ELSE <<Sgn(a[1]) * Sgn(b[1]), 0>>)
    ELSE Q(a[1] * b[1], a[2] * b[2])

FDiv(a, b) ==
    IF IsNaN(a) \/ IsNaN(b) THEN NaN
    ELSE IF ~IsFinite(a) /\ ~IsFinite(b) THEN NaN
    ELSE IF ~IsFinite(a) THEN <<a[1] * (IF b[1] < 0 THEN -1 ELSE 1), 0>>
    ELSE IF ~IsFinite(b) THEN Zero
    ELSE IF b[1] = 0 THEN (IF a[1] = 0 THEN NaN ELSE <<Sgn(a[1]), 0>>)
    ELSE Q(a[1] * b[2] * Sgn(b[1]), a[2] * Abs(b[1]))

\* comparisons are false as soon as one side is NaN
FLt(a, b) ==
    IF IsNaN(a) \/ IsNaN(b) THEN FALSE
    ELSE IF ~IsFinite(a) /\ ~IsFinite(b) THEN a[1] < b[1]
    ELSE a[1] * b[2] < b[1] * a[2]
FGt(a, b) == FLt(b, a)
FLe(a, b) == ~IsNaN(a) /\ ~IsNaN(b) /\ (a = b \/ FLt(a, b))

RECURSIVE ISqrtIn(_, _, _)
ISqrtIn(n, lo, hi) ==
    IF lo = hi THEN lo
    ELSE LET mid == (lo + hi + 1) \div 2
         IN IF mid * mid <= n THEN ISqrtIn(n, mid, hi) ELSE ISqrtIn(n, lo, mid - 1)
ISqrt(n) == ISqrtIn(n, 0, IF n < 1024 THEN 32 ELSE 46340)

FSqrt(a) ==
    IF IsNaN(a) \/ a[1] < 0 THEN NaN
    ELSE IF ~IsFinite(a) THEN PosInf
    ELSE LET rn == ISqrt(a[1])
             rd == ISqrt(a[2])
         IN IF rn * rn = a[1] /\ rd * rd = a[2] THEN Q(rn, rd)
            ELSE Q(ISqrt(a[1] * a[2] * SqrtScale * SqrtScale), a[2] * SqrtScale)

\* ------------------------------------------------- Vector3 and Matrix3
VI(x, y, z) == <<I(x), I(y), I(z)>>
VAdd(u, v) == <<FAdd(u[1], v[1]), FAdd(u[2], v[2]), FAdd(u[3], v[3])>>
VSub(u, v) == <<FSub(u[1], v[1]), FSub(u[2], v[2]), FSub(u[3], v[3])>>
VScale(u, k) == <<FMul(u[1], k), FMul(u[2], k), FMul(u[3], k)>>
VUnscale(u, k) == <<FDiv(u[1], k), FDiv(u[2], k), FDiv(u[3], k)>>
VDot(u, v) == FAdd(FAdd(FMul(u[1], v[1]), FMul(u[2], v[2])), FMul(u[3], v[3]))
VCross(u, v) ==
    <<FSub(FMul(u[2], v[3]), FMul(u[3], v[2])),
      FSub(FMul(u[3], v[1]), FMul(u[1], v[3])),
      FSub(FMul(u[1], v[2]), FMul(u[2], v[1]))>>
VNormSquared(u) == VDot(u, u)
VMagnitude(u) == FSqrt(VNormSquared(u))

MZeros == <<VI(0, 0, 0), VI(0, 0, 0), VI(0, 0, 0)>>
MIdentity == <<VI(1, 0, 0), VI(0, 1, 0), VI(0, 0, 1)>>
MAdd(A, B) == <<VAdd(A[1], B[1]), VAdd(A[2], B[2]), VAdd(A[3], B[3])>>
MScale(A, k) == <<VScale(A[1], k), VScale(A[2], k), VScale(A[3], k)>>
MUnscale(A, k) == <<VUnscale(A[1], k), VUnscale(A[2], k), VUnscale(A[3], k)>>
MVec(A, v) == <<VDot(A[1], v), VDot(A[2], v), VDot(A[3], v)>>

\* -------------------------------------------------------------------- text
Whitespace == {" ", "\t"}
DigitChars == <<"0", "1", "2", "3", "4", "5", "6", "7", "8", "9">>
IsDigit(c) == \E i \in 1..10 : DigitChars[i] = c
DigitVal(c) == (CHOOSE i \in 1..10 : DigitChars[i] = c) - 1

RECURSIVE Pow10(_)
Pow10(k) == IF k = 0 THEN 1 ELSE 10 * Pow10(k - 1)

\* str::split_whitespace: the maximal runs of non-whitespace characters
RECURSIVE SplitFrom(_, _, _)
SplitFrom(s, i, cur) ==
    IF i > Len(s) THEN (IF cur = <<>> THEN <<>> ELSE <<cur>>)
    ELSE IF s[i] \in Whitespace
         THEN (IF cur = <<>> THEN <<>> ELSE <<cur>>) \o SplitFrom(s, i + 1, <<>>)
    ELSE SplitFrom(s, i + 1, Append(cur, s[i]))
split_whitespace(s) == SplitFrom(s, 1, <<>>)

RECURSIVE DigitsVal(_)
DigitsVal(ds) ==
    IF ds = <<>> THEN 0
    ELSE 10 * DigitsVal(SubSeq(ds, 1, Len(ds) - 1)) + DigitVal(ds[Len(ds)])

\* str::parse::<f32> on tokens made of a sign, digits and a decimal point
\* (exponents and the inf/nan literals do not occur in the modelled input)
parse_f32(tok) ==
    LET signed == Len(tok) > 0 /\ tok[1] \in {"-", "+"}
        neg == Len(tok) > 0 /\ tok[1] = "-"
        body == IF signed THEN Tail(tok) ELSE tok
        dots == {i \in 1..Len(body) : body[i] = "."}
        dot == IF dots = {} THEN Len(body) + 1 ELSE CHOOSE i \in dots : TRUE
        ip == SubSeq(body, 1, dot - 1)
        fp == SubSeq(body, dot + 1, Len(body))
        ok == /\ Cardinality(dots) <= 1
              /\ \A i \in 1..Len(ip) : IsDigit(ip[i])
              /\ \A i \in 1..Len(fp) : IsDigit(fp[i])
              /\ Len(ip) + Len(fp) >= 1
        mag == DigitsVal(ip) * Pow10(Len(fp)) + DigitsVal(fp)
    IN [ok |-> ok,
        val |-> IF ok THEN Q(IF neg THEN -mag ELSE mag, Pow10(Len(fp))) ELSE Zero]

RECURSIVE IntDigits(_)
IntDigits(n) ==
    IF n < 10 THEN <<DigitChars[n + 1]>>
    ELSE Append(IntDigits(n \div 10), DigitChars[(n % 10) + 1])

RECURSIVE FracDigits(_, _, _)
FracDigits(r, d, k) ==
    IF r = 0 \/ k = 0 THEN <<>>
    ELSE <<DigitChars[((r * 10) \div d) + 1]>> \o FracDigits((r * 10) % d, d, k - 1)

\* Display for f32 ("{}"): NaN, inf, -inf, or the decimal expansion with no
\* trailing ".0"; an expansion that does not terminate is cut at MaxFracDigits
FmtF32(a) ==
    IF IsNaN(a) THEN <<"N", "a", "N">>
    ELSE IF a = PosInf THEN <<"i", "n", "f">>
    ELSE IF a = NegInf THEN <<"-", "i", "n", "f">>
    ELSE LET m == Abs(a[1])
             frac == FracDigits(m % a[2], a[2], MaxFracDigits)
         IN (IF a[1] < 0 THEN <<"-">> ELSE <<>>)
            \o IntDigits(m \div a[2])
            \o (IF frac = <<>> THEN <<>> ELSE <<".">> \o frac)

\* println!("{} {} {} {}", words[0], output.x, output.y, output.z)
FormatVertex(tag, v) ==
    tag \o <<" ">> \o FmtF32(v[1]) \o <<" ">> \o FmtF32(v[2]) \o <<" ">> \o FmtF32(v[3])

\* -------------------------------------------------------------- nalgebra
\* Unit::new_normalize: the vector divided by its norm, whatever the norm
new_normalize(v) == VUnscale(v, VMagnitude(v))

\* Matrix::try_normalize(min_norm), n being self.norm()
TryNormalizeBy(v, n, min_norm) ==
    IF FLe(n, min_norm) THEN [some |-> FALSE, v |-> v]
    ELSE [some |-> TRUE, v |-> VUnscale(v, n)]
try_normalize(v, min_norm) == TryNormalizeBy(v, VMagnitude(v), min_norm)

\* Unit::try_new(v, f32::EPSILON): every cross product of the modelled
\* directions is either exactly zero or far above epsilon squared, so the
\* threshold is compared as zero
TryNewBy(v, sq_norm) ==
    IF FGt(sq_norm, Zero) THEN [some |-> TRUE, v |-> VUnscale(v, FSqrt(sq_norm))]
    ELSE [some |-> FALSE, v |-> v]
try_new(v) == TryNewBy(v, VNormSquared(v))

\* Rotation3::from_axis_angle, given cos and sin of the angle
from_axis_angle(u, cos, sin) ==
    LET omc == FSub(One, cos)
        sqx == FMul(u[1], u[1])
        sqy == FMul(u[2], u[2])
        sqz == FMul(u[3], u[3])
        xy == FMul(FMul(u[1], u[2]), omc)
        xz == FMul(FMul(u[1], u[3]), omc)
        yz == FMul(FMul(u[2], u[3]), omc)
        xs == FMul(u[1], sin)
        ys == FMul(u[2], sin)
        zs == FMul(u[3], sin)
    IN <<<<FAdd(sqx, FMul(FSub(One, sqx), cos)), FSub(xy, zs), FAdd(xz, ys)>>,
         <<FAdd(xy, zs), FAdd(sqy, FMul(FSub(One, sqy), cos)), FSub(yz, xs)>>,
         <<FSub(xz, ys), FAdd(yz, xs), FAdd(sqz, FMul(FSub(One, sqz), cos))>>>>

\* Rotation3::rotation_between(a, b): None when a and b are opposite.
\* The angle is acos(na . nb): its cosine is the dot product and its sine
\* is sqrt(1 - dot^2).
\* ... the part on the axis try_new(na x nb) and the dot product na . nb
RotationAbout(axis, dot) ==
    IF axis.some
    THEN [some |-> TRUE,
          m |-> from_axis_angle(axis.v, dot, FSqrt(FSub(One, FMul(dot, dot))))]
    ELSE IF FLt(dot, Zero) THEN [some |-> FALSE, m |-> MZeros]
    ELSE [some |-> TRUE, m |-> MIdentity]

\* ... the part on the two results of try_normalize
RotationBetweenUnits(na, nb) ==
    IF na.some /\ nb.some
    THEN RotationAbout(try_new(VCross(na.v, nb.v)), VDot(na.v, nb.v))
    ELSE [some |-> TRUE, m |-> MIdentity]

rotation_between(a, b) ==
    RotationBetweenUnits(try_normalize(a, Zero), try_normalize(b, Zero))

\* ------------------------------------------------------- WarpTransformer
Line(o, h) == [origin |-> o, heading |-> h]

perpendicular_distance(point, line) ==
    LET ab == VSub(line.heading, line.origin)
        ap == VSub(point, line.origin)
        magnitude_ab == VMagnitude(ab)
        projection_length == FDiv(VDot(ap, ab), FMul(magnitude_ab, magnitude_ab))
        projection == VScale(ab, projection_length)
        perpendicular == VSub(ap, projection)
    IN VMagnitude(perpendicular)

\* Isometry3::from_parts on rotation.unwrap(): ok = FALSE is the panic of
\* unwrap() on None
Isometry(translation, rotation) ==
    [ok |-> rotation.some, rotation |-> rotation.m, translation |-> translation]

create_transformation_matrix(line1, line2) ==
    LET dir1 == new_normalize(VSub(line1.heading, line1.origin))
        dir2 == new_normalize(VSub(line2.heading, line2.origin))
    IN Isometry(VSub(line1.origin, line2.origin), rotation_between(dir2, dir1))

\* mutant: the last line taken as anchor
create_transformation_matrices_LastAnchor(ls) ==
    LET first_line == ls[Len(ls)]
    IN [i \in 1..Len(ls) |-> create_transformation_matrix(first_line, ls[i])]

create_transformation_matrices(ls) ==
    LET first_line == ls[1]
    IN [i \in 1..Len(ls) |-> create_transformation_matrix(first_line, ls[i])]

\* mutant: the anchor's own rotation left out of the array
WarpTransformerOf_DropAnchor(ls, isos) ==
    [ok |-> \A i \in 1..Len(isos) : isos[i].ok,
     lines |-> ls,
     transforms |-> Tail([i \in 1..Len(isos) |-> isos[i].rotation])]

\* the struct WarpTransformer::new builds from the isometries: ok = FALSE
\* when an alignment panicked
WarpTransformerOf(ls, isos) ==
    [ok |-> \A i \in 1..Len(isos) : isos[i].ok,
     lines |-> ls,
     transforms |-> [i \in 1..Len(isos) |-> isos[i].rotation]]

WarpTransformer_new(ls) == WarpTransformerOf(ls, create_transformation_matrices(ls))

RECURSIVE SumWeights(_, _)
SumWeights(weights, k) ==
    IF k = 0 THEN Zero ELSE FAdd(SumWeights(weights, k - 1), weights[k])

RECURSIVE WeightedSum(_, _, _)
WeightedSum(ts, weights, k) ==
    IF k = 0 THEN MZeros
    ELSE MAdd(WeightedSum(ts, weights, k - 1), MScale(ts[k], weights[k]))

\* mutant: inverse-distance weights
InverseWeights(weights) == [k \in 1..Len(weights) |-> FDiv(One, weights[k])]
interpolate_transforms_Inverse(ts, weights) ==
    [ok |-> Len(ts) = Len(weights),
     m |-> MUnscale(WeightedSum(ts, InverseWeights(weights), Len(ts)),
                    SumWeights(InverseWeights(weights), Len(weights)))]

\* ok = FALSE is the failure of assert_eq!
interpolate_transforms(ts, weights) ==
    [ok |-> Len(ts) = Len(weights),
     m |-> MUnscale(WeightedSum(ts, weights, Len(ts)), SumWeights(weights, Len(weights)))]

Weights(ls, pt) == [i \in 1..Len(ls) |-> perpendicular_distance(pt, ls[i])]

\* interpolated_transform * pt, unless the assertion failed
ApplyInterpolated(interpolated_transform, pt) ==
    [ok |-> interpolated_transform.ok,
     v |-> IF interpolated_transform.ok THEN MVec(interpolated_transform.m, pt) ELSE pt]

WarpTransform(ls, ts, pt) ==
    ApplyInterpolated(interpolate_transforms(ts, Weights(ls, pt)), pt)

TranslateTransform(xyz, pt) == VAdd(pt, xyz)
ScaleTransform(xyz, pt) ==
    <<FMul(pt[1], xyz[1]), FMul(pt[2], xyz[2]), FMul(pt[3], xyz[3])>>

\* ------------------------------------------------------------ the program
VARIABLES
    command,      \* args.command, as parsed by clap
    stdin,        \* the lines of the input stream
    nread,        \* how many of them the loop has read
    transformer,  \* the Box<dyn Transformer> built by main
    stdout,       \* the lines printed so far
    stderr,       \* the diagnostics printed so far
    pc            \* "start", "loop", "done", "exit" (usage error), "panicked"

vars == <<command, stdin, nread, transformer, stdout, stderr, pc>>

Translate(v) == [kind |-> "translate", xyz |-> v, lines |-> <<>>]
Scale(v) == [kind |-> "scale", xyz |-> v, lines |-> <<>>]
Warp(ls) == [kind |-> "warp", xyz |-> VI(0, 0, 0), lines |-> ls]

NoTransformer == [kind |-> "none", xyz |-> VI(0, 0, 0), lines |-> <<>>, transforms |-> <<>>]

\* the set a warp without --line falls back to
DefaultLines ==
    <<Line(VI(0, 0, 0), VI(1, 0, 0)), Line(VI(0, 0, 0), VI(0, 0, 1))>>

MinLinesMessage == "A minimum of two lines is required."
UnwrapNonePanic == "called Option::unwrap() on a None value"
IndexPanic == "index out of bounds: the len is 0 but the index is 0"
ParseFloatPanic == "called Result::unwrap() on an Err value: ParseFloatError"
AssertPanic == "The number of transforms and weights must be the same"

\* mutant: no minimum of two lines
SelectLines_NoMinimum(ls) ==
    IF Len(ls) = 0 THEN [usage |-> FALSE, lines |-> DefaultLines]
    ELSE [usage |-> FALSE, lines |-> ls]

\* the match on lines.len() in main: usage = TRUE is the early return
SelectLines(ls) ==
    IF Len(ls) = 0 THEN [usage |-> FALSE, lines |-> DefaultLines]
    ELSE IF Len(ls) = 1 THEN [usage |-> TRUE, lines |-> <<>>]
    ELSE [usage |-> FALSE, lines |-> ls]

\* dyn Transformer::transform
Transform(tr, pt) ==
    IF tr.kind = "translate" THEN [ok |-> TRUE, v |-> TranslateTransform(tr.xyz, pt)]
    ELSE IF tr.kind = "scale" THEN [ok |-> TRUE, v |-> ScaleTransform(tr.xyz, pt)]
    ELSE WarpTransform(tr.lines, tr.transforms, pt)

TagV == <<"v">>
TagVertex == <<"v", "e", "r", "t", "e", "x">>

\* the condition of the if in the loop, for a non-empty words
IsPassthrough(words) ==
    (words[1] # TagV /\ words[1] # TagVertex) \/ Len(words) # 4

\* mutant: the tag printed is always v
PrintVertex_FixedTag(tag, output) ==
    IF ~output.ok THEN [panic |-> AssertPanic, line |-> <<>>]
    ELSE [panic |-> "", line |-> FormatVertex(TagV, output.v)]

\* the println of a vertex record, unless transform panicked
PrintVertex(tag, output) ==
    IF ~output.ok THEN [panic |-> AssertPanic, line |-> <<>>]
    ELSE [panic |-> "", line |-> FormatVertex(tag, output.v)]

\* the body of the loop on the tokens of text_line: what is printed, or
\* the panic
ProcessWords(tr, text_line, words) ==
    IF Len(words) = 0 THEN [panic |-> IndexPanic, line |-> <<>>]
    ELSE IF IsPassthrough(words) THEN [panic |-> "", line |-> text_line]
    ELSE LET x == parse_f32(words[2])
             y == parse_f32(words[3])
             z == parse_f32(words[4])
         IN IF ~(x.ok /\ y.ok /\ z.ok) THEN [panic |-> ParseFloatPanic, line |-> <<>>]
            ELSE PrintVertex(words[1], Transform(tr, <<x.val, y.val, z.val>>))

ProcessLine(tr, text_line) == ProcessWords(tr, text_line, split_whitespace(text_line))

\* ------------------------------------------------------------ the inputs
LX == Line(VI(0, 0, 0), VI(1, 0, 0))
LZ == Line(VI(0, 0, 0), VI(0, 0, 1))
LNegX == Line(VI(0, 0, 0), VI(-1, 0, 0))
LY == Line(VI(1, 0, 0), VI(1, 2, 0))
LDiag == Line(VI(0, 0, 0), VI(3, 4, 0))
LPoint == Line(VI(1, 1, 1), VI(1, 1, 1))

Commands ==
    { Translate(VI(1, 0, -2)),
      Scale(<<Q(1, 2), I(2), I(-1)>>),
      Warp(<<>>),
      Warp(<<LX>>),
      Warp(<<LZ, LY>>),
      Warp(<<LX, LDiag, LZ>>),
      Warp(<<LX, LNegX>>),
      Warp(<<LX, LPoint>>),
      Warp(<<LPoint, LZ>>) }

InputLines ==
    { <<"v", " ", "1", " ", "0", " ", "0">>,
      <<"v", " ", "0", " ", "0", " ", "0">>,
      <<"v", "e", "r", "t", "e", "x", " ", " ", "0", " ", "2", " ", "0">>,
      <<"v", " ", "0", " ", "-", "1", ".", "5", " ", "2">>,
      <<"f", " ", "1", " ", "2", " ", "3">>,
      <<"v", " ", "1", " ", "2">>,
      <<"v", " ", "1", " ", "x", " ", "0">>,
      <<" ">>,
      << >> }

InputStreams == UNION {[1..n -> InputLines] : n \in 0..MaxInput}

\* ------------------------------------------------------------- behaviour
Init ==
    /\ command \in Commands
    /\ stdin \in InputStreams
    /\ nread = 0
    /\ transformer = NoTransformer
    /\ stdout = <<>>
    /\ stderr = <<>>
    /\ pc = "start"

MainTranslate ==
    /\ pc = "start"
    /\ command.kind = "translate"
    /\ transformer' = [kind |-> "translate", xyz |-> command.xyz,
                       lines |-> <<>>, transforms |-> <<>>]
    /\ pc' = "loop"
    /\ UNCHANGED <<command, stdin, nread, stdout, stderr>>

MainScale ==
    /\ pc = "start"
    /\ command.kind = "scale"
    /\ transformer' = [kind |-> "scale", xyz |-> command.xyz,
                       lines |-> <<>>, transforms |-> <<>>]
    /\ pc' = "loop"
    /\ UNCHANGED <<command, stdin, nread, stdout, stderr>>

\* Box::new(WarpTransformer::new(..)), or the panic inside it
BoxWarp(w) ==
    IF w.ok
    THEN /\ transformer' = [kind |-> "warp", xyz |-> VI(0, 0, 0),
                            lines |-> w.lines, transforms |-> w.transforms]
         /\ pc' = "loop"
         /\ UNCHANGED stderr
    ELSE /\ stderr' = Append(stderr, UnwrapNonePanic)
         /\ pc' = "panicked"
         /\ UNCHANGED transformer

\* the usage error, or the construction from the selected lines
WarpFrom(sel) ==
    IF sel.usage
    THEN /\ stderr' = Append(stderr, MinLinesMessage)
         /\ pc' = "exit"
         /\ UNCHANGED transformer
    ELSE BoxWarp(WarpTransformer_new(sel.lines))

MainWarp ==
    /\ pc = "start"
    /\ command.kind = "warp"
    /\ WarpFrom(SelectLines(command.lines))
    /\ UNCHANGED <<command, stdin, nread, stdout>>

\* the effect of one iteration: a line on stdout, or the panic
Emit(r) ==
    IF r.panic # ""
    THEN /\ stderr' = Append(stderr, r.panic)
         /\ pc' = "panicked"
         /\ UNCHANGED stdout
    ELSE /\ stdout' = Append(stdout, r.line)
         /\ UNCHANGED <<stderr, pc>>

LoopIteration ==
    /\ pc = "loop"
    /\ nread < Len(stdin)
    /\ nread' = nread + 1
    /\ Emit(ProcessLine(transformer, stdin[nread + 1]))
    /\ UNCHANGED <<command, stdin, transformer>>

LoopEnd ==
    /\ pc = "loop"
    /\ nread = Len(stdin)
    /\ pc' = "done"
    /\ UNCHANGED <<command, stdin, nread, transformer, stdout, stderr>>

Next == MainTranslate \/ MainScale \/ MainWarp \/ LoopIteration \/ LoopEnd

Spec == Init /\ [][Next]_vars

\* ----------------------------------------------------------------- claims
WordsOf(i) == split_whitespace(stdin[i])
VertexShape(w) == Len(w) = 4 /\ w[1] \in {TagV, TagVertex}
CoordsOk(w) == parse_f32(w[2]).ok /\ parse_f32(w[3]).ok /\ parse_f32(w[4]).ok
PointOf(w) == <<parse_f32(w[2]).val, parse_f32(w[3]).val, parse_f32(w[4]).val>>
IsVertexRecord(w) == VertexShape(w) /\ CoordsOk(w)
Degenerate(l) == l.origin = l.heading
Constructed == transformer.kind # "none"
IsWarp == transformer.kind = "warp"

\* C1: every line read that does not have the vertex-record shape (an empty
\* or whitespace-only line included) is printed unchanged, as the line of
\* stdout at its own position: the loop never aborts on it.
C1_Passthrough ==
    \A i \in 1..nread :
        ~VertexShape(WordsOf(i)) => (Len(stdout) >= i /\ stdout[i] = stdin[i])

\* C2: a line with the vertex-record shape in which a coordinate token does
\* not parse as a float is printed unchanged at its own position, the lines
\* printed before it staying in place.
C2_MalformedVertexPassthrough ==
    \A i \in 1..nread :
        (VertexShape(WordsOf(i)) /\ ~CoordsOk(WordsOf(i)))
            => (Len(stdout) >= i /\ stdout[i] = stdin[i])

WeightSum(pt) ==
    SumWeights(Weights(transformer.lines, pt), Len(transformer.lines))
NaNTriple == <<NaN, NaN, NaN>>

\* C3: a vertex whose distance to every reference line is zero (sum of
\* weights zero) ends in a reported error, and the NaN triple of the
\* division by zero is never printed for it.
C3_SingularityReported ==
    IsWarp =>
        \A i \in 1..nread :
            (IsVertexRecord(WordsOf(i)) /\ WeightSum(PointOf(WordsOf(i))) = Zero)
                => /\ stderr # <<>>
                   /\ (Len(stdout) < i
                       \/ stdout[i] # FormatVertex(WordsOf(i)[1], NaNTriple))

\* C4: a reference set of two or more lines with a line whose origin equals
\* its heading is rejected at construction: no transformer is built from it
\* and no input is read.
C4_DegenerateRejected ==
    (/\ command.kind = "warp"
     /\ Len(command.lines) >= 2
     /\ \E k \in 1..Len(command.lines) : Degenerate(command.lines[k]))
        => (~Constructed /\ nread = 0)

Direction(l) == new_normalize(VSub(l.heading, l.origin))
Opposite(u, v) == u = <<FNeg(v[1]), FNeg(v[2]), FNeg(v[3])>>

\* C5: construction is total on a valid reference set (two or more lines,
\* none degenerate) in which a line points opposite to the anchor: once main
\* has left its start, the warp transformer exists, with one rotation per
\* line.
C5_ConstructionTotal ==
    (/\ command.kind = "warp"
     /\ Len(command.lines) >= 2
     /\ \A k \in 1..Len(command.lines) : ~Degenerate(command.lines[k])
     /\ \E k \in 2..Len(command.lines) :
            Opposite(Direction(command.lines[k]), Direction(command.lines[1]))
     /\ pc # "start")
        => (IsWarp /\ Len(transformer.transforms) = Len(command.lines))

\* C6: warp with exactly one --line reports the configuration error and
\* stops: nothing is read, nothing is printed, no transformer is built.
C6_OneLineUsageError ==
    (command.kind = "warp" /\ Len(command.lines) = 1)
        => /\ pc \in {"start", "exit"}
           /\ nread = 0
           /\ stdout = <<>>
           /\ ~Constructed
           /\ (pc = "exit" => stderr = <<MinLinesMessage>>)

C6_Witness ==
    /\ command.kind = "warp"
    /\ Len(command.lines) = 1
    /\ pc = "exit"
    /\ Len(stdin) = MaxInput

AnchoredAt(ls, ts, a) ==
    \A i \in 1..Len(ls) : ts[i] = create_transformation_matrix(ls[a], ls[i]).rotation

\* C7: a warp transformer is built from the two built-in lines
\* (0,0,0)->(1,0,0), (0,0,0)->(0,0,1) when no --line was given and from
\* the supplied lines in their order when two or more were; its first line
\* is the anchor of every rotation, and it has at least two lines.
C7_ReferenceSetSelection ==
    IsWarp =>
        /\ Len(command.lines) = 0 =>
               transformer.lines = <<[origin |-> VI(0, 0, 0), heading |-> VI(1, 0, 0)],
                                     [origin |-> VI(0, 0, 0), heading |-> VI(0, 0, 1)]>>
        /\ Len(command.lines) >= 2 => transformer.lines = command.lines
        /\ Len(command.lines) # 1
        /\ Len(transformer.lines) >= 2
        /\ Len(transformer.transforms) = Len(transformer.lines)
        /\ AnchoredAt(transformer.lines, transformer.transforms, 1)

C7_Witness ==
    /\ IsWarp
    /\ Len(command.lines) = 3
    /\ transformer.transforms[2] # MIdentity
    /\ pc = "done"

GoodLine(w) == Len(w) >= 1 /\ (VertexShape(w) => CoordsOk(w))
AllGood == \A i \in 1..Len(stdin) : GoodLine(WordsOf(i))

ExpectedOf(text_line, w, tr) ==
    IF VertexShape(w)
    THEN w[1] \o <<" ">> \o FmtF32(tr.v[1]) \o <<" ">> \o FmtF32(tr.v[2])
              \o <<" ">> \o FmtF32(tr.v[3])
    ELSE text_line
Expected(i) ==
    ExpectedOf(stdin[i], WordsOf(i), Transform(transformer, PointOf(WordsOf(i))))

\* C8: on a stream of well-formed vertex records and non-vertex lines with
\* at least one token, the loop never aborts, every line read has been
\* printed before the next is read, the output holds one line per input line
\* in the input order, and the line of a vertex record is its own tag
\* followed by the coordinates of transform(point).
C8_RecordLoopOrdering ==
    (Constructed /\ AllGood) =>
        /\ pc \in {"loop", "done"}
        /\ Len(stdout) = nread
        /\ (pc = "done" => nread = Len(stdin))
        /\ \A i \in 1..nread : stdout[i] = Expected(i)

C8_Witness ==
    /\ pc = "done"
    /\ AllGood
    /\ Len(stdin) = 2
    /\ IsWarp
    /\ WordsOf(1)[1] = TagVertex /\ VertexShape(WordsOf(1))
    /\ ~VertexShape(WordsOf(2))
    /\ stdout[1] # stdin[1]

RECURSIVE BlendSum(_, _, _)
BlendSum(rotations, w, k) ==
    IF k = 0 THEN MZeros
    ELSE MAdd(BlendSum(rotations, w, k - 1), MScale(rotations[k], w[k]))
RECURSIVE Total(_, _)
Total(w, k) == IF k = 0 THEN Zero ELSE FAdd(Total(w, k - 1), w[k])

Blended(rotations, w) ==
    MUnscale(BlendSum(rotations, w, Len(rotations)), Total(w, Len(w)))
OnLine(pt, l) ==
    VCross(VSub(pt, l.origin), VSub(l.heading, l.origin)) = VI(0, 0, 0)

BlendHolds(line, tag, pt, w) ==
    /\ Total(w, Len(w)) # Zero =>
           line = FormatVertex(tag, MVec(Blended(transformer.transforms, w), pt))
    /\ (/\ Len(transformer.lines) = 2
        /\ ~Degenerate(transformer.lines[1])
        /\ ~Degenerate(transformer.lines[2])
        /\ OnLine(pt, transformer.lines[1])
        /\ ~OnLine(pt, transformer.lines[2]))
           => line = FormatVertex(tag, MVec(transformer.transforms[2], pt))

\* C9: the line printed for a vertex P with a non-zero sum of weights is
\* ((sum_i rotations[i] * w_i) / (sum_i w_i)) * P with w_i the distance from
\* P to lines[i] and no translation; in a two-line set a point on the
\* anchor line and off the second line is mapped by rotations[1] (the
\* second rotation) alone.
C9_DistanceWeightedBlend ==
    IsWarp =>
        \A i \in 1..Len(stdout) :
            IsVertexRecord(WordsOf(i)) =>
                BlendHolds(stdout[i], WordsOf(i)[1], PointOf(WordsOf(i)),
                           Weights(transformer.lines, PointOf(WordsOf(i))))

C9_Witness ==
    /\ IsWarp
    /\ Len(transformer.lines) = 2
    /\ Len(stdout) >= 1
    /\ IsVertexRecord(WordsOf(1))
    /\ OnLine(PointOf(WordsOf(1)), transformer.lines[1])
    /\ ~OnLine(PointOf(WordsOf(1)), transformer.lines[2])
    /\ transformer.transforms[2] # MIdentity
    /\ stdout[1] # stdin[1]

WarpFieldAligned ==
    IsWarp =>
        /\ Len(transformer.transforms) = Len(transformer.lines)
        /\ AnchoredAt(transformer.lines, transformer.transforms, 1)
        /\ \A k \in 1..Len(stderr) : stderr[k] # AssertPanic
WarpFieldFrozen == IsWarp => transformer' = transformer

\* C10: once the warp transformer is built, transforms has the length of
\* lines, transforms[i] is the rotation aligning lines[i] with lines[0],
\* no step changes either array, and the length assertion never fails.
C10_WarpFieldInvariant == [](WarpFieldAligned) /\ [][WarpFieldFrozen]_vars

C10_Witness ==
    /\ IsWarp
    /\ nread = 2
    /\ Len(stdout) = 2
    /\ IsVertexRecord(WordsOf(1))
    /\ IsVertexRecord(WordsOf(2))
    /\ stdin[1] # stdin[2]

====
